---- MODULE Spec2Model ----
(***************************************************************************)
(* Verification model of organizations/serializers.py: the validation      *)
(* routines of the strategic-planning serializers and the writes they      *)
(* guard.                                                                  *)
(*                                                                         *)
(* Weights are Decimal(5,2) columns; they are kept here as integers in     *)
(* hundredths (10.00 is 1000), so that 0.35, 0.65 and the 0.01 tolerance   *)
(* are exact.  A Python dict handed to validate() is a record in which the *)
(* value Absent stands for "key not in data" and None for Python's None.   *)
(***************************************************************************)
EXTENDS Integers, FiniteSets, Sequences, TLC

VARIABLES objectives, initiatives, measures, activities, plans, reviews, result

vars == <<objectives, initiatives, measures, activities, plans, reviews, result>>

\* Python None (a NULL column, or a key whose value is None).
None == -1
\* The key is not in the dict: data.get(key) gives None, "key in data" is false.
Absent == -2

Has(data, key) == data[key] # Absent
Get(data, key) == IF Has(data, key) THEN data[key] ELSE None

\* ModelSerializer.update: setattr for every key the validated data holds.
SetAttrs(row, data, keys) ==
    [f \in DOMAIN row |-> IF f \in keys /\ Has(data, f) THEN data[f] ELSE row[f]]

\* ModelSerializer.create: a column the data does not hold is NULL.
NewRow(data, keys) == [f \in keys |-> Get(data, f)] @@ [exists |-> TRUE]

(***************************************************************************)
(* Bounds of the model.                                                    *)
(***************************************************************************)
NumObjectives == 1
NumPrograms == 1
NumInitiatives == 1

ObjectiveIds == 1..NumObjectives
ProgramIds == 1..NumPrograms
InitiativeIds == 1..NumInitiatives

\* Weights a caller may send, in hundredths: 0.00 is left out of the stored
\* values only to keep the state space small; 101.00 is out of range.
ValidWeights == {1000, 2000}
WeightInputs == ValidWeights \cup {10100}

OK == "OK"

(***************************************************************************)
(* StrategicObjectiveSerializer                                            *)
(***************************************************************************)
get_effective_weight(obj) ==
    IF obj.planner_weight # None THEN obj.planner_weight ELSE obj.weight

validate_weight(value) ==
    IF value < 0 \/ value > 10000 THEN "Weight must be between 0 and 100" ELSE OK

validate_planner_weight(value) ==
    IF value # None /\ (value < 0 \/ value > 10000)
    THEN "Planner weight must be between 0 and 100" ELSE OK

ObjectiveData ==
    [weight : WeightInputs \cup {Absent},
     planner_weight : WeightInputs \cup {None, Absent}]

\* Field validators run for the fields the data holds; the first failure is
\* reported (both are collected by the framework, the write is refused either way).
StrategicObjectiveValidate(data) ==
    IF Has(data, "weight") /\ validate_weight(data.weight) # OK
    THEN validate_weight(data.weight)
    ELSE IF Has(data, "planner_weight") /\ validate_planner_weight(data.planner_weight) # OK
    THEN validate_planner_weight(data.planner_weight)
    ELSE OK

ObjectiveUpdate(o, data) ==
    /\ objectives[o].exists
    /\ LET r == StrategicObjectiveValidate(data) IN
        /\ result' = [op |-> "ObjectiveUpdate", outcome |-> r]
        /\ objectives' = IF r = OK
                         THEN [objectives EXCEPT ![o] = SetAttrs(@, data, {"weight", "planner_weight"})]
                         ELSE objectives
    /\ UNCHANGED <<initiatives, measures, activities, plans, reviews>>

(***************************************************************************)
(* StrategicInitiativeSerializer                                           *)
(***************************************************************************)
InitiativeKeys == {"strategic_objective", "program", "weight"}

InitiativeData ==
    [strategic_objective : ObjectiveIds \cup {None, Absent},
     program : ProgramIds \cup {None, Absent},
     weight : WeightInputs \cup {Absent}]

\* The number of the two parent keys whose data.get(...) is not None.
ParentCount(data) ==
    (IF Get(data, "strategic_objective") # None THEN 1 ELSE 0)
    + (IF Get(data, "program") # None THEN 1 ELSE 0)

\* The weight the initiative is held against: planner_weight only for a
\* default objective that has one.
InitiativeParentWeight(objective) ==
    IF objective.is_default /\ objective.planner_weight # None
    THEN objective.planner_weight
    ELSE objective.weight

\* validate(): the parent count, then the weight against the parent objective.
\* StrategicObjective.DoesNotExist is passed over.  The copy of the feed's
\* name into data['name'] touches neither the verdict nor a weight and is
\* left out.
StrategicInitiativeValidate(data) ==
    IF ParentCount(data) # 1
    THEN "Initiative must be linked to exactly one parent"
    ELSE IF Has(data, "strategic_objective") /\ data.strategic_objective # None
    THEN IF ~ (data.strategic_objective \in ObjectiveIds
               /\ objectives[data.strategic_objective].exists)
         THEN OK
         ELSE IF Has(data, "weight")
                 /\ data.weight > InitiativeParentWeight(objectives[data.strategic_objective])
         THEN "WeightExceedsParent"
         ELSE OK
    ELSE OK

NoInitiative ==
    [exists |-> FALSE, strategic_objective |-> None, program |-> None, weight |-> None]

\* create(): weight is a required column, so a create always carries it; the
\* range of an initiative's weight is not checked by this serializer.
InitiativeCreate(i, data) ==
    /\ ~ initiatives[i].exists
    /\ \A j \in InitiativeIds : j < i => initiatives[j].exists
    /\ Has(data, "weight")
    /\ LET r == StrategicInitiativeValidate(data) IN
        /\ result' = [op |-> "InitiativeCreate", outcome |-> r]
        /\ initiatives' = IF r = OK
                          THEN [initiatives EXCEPT ![i] = NewRow(data, InitiativeKeys)]
                          ELSE initiatives
    /\ UNCHANGED <<objectives, measures, activities, plans, reviews>>

InitiativeUpdate(i, data) ==
    /\ initiatives[i].exists
    /\ LET r == StrategicInitiativeValidate(data) IN
        /\ result' = [op |-> "InitiativeUpdate", outcome |-> r]
        /\ initiatives' = IF r = OK
                          THEN [initiatives EXCEPT ![i] = SetAttrs(@, data, InitiativeKeys)]
                          ELSE initiatives
    /\ UNCHANGED <<objectives, measures, activities, plans, reviews>>

NoResult == [op |-> "none", outcome |-> OK]

InitObjectives ==
    objectives \in [ObjectiveIds ->
        [exists : {TRUE}, weight : ValidWeights,
         planner_weight : ValidWeights \cup {None}, is_default : BOOLEAN]]

InitInitiative ==
    /\ InitObjectives
    /\ initiatives = [i \in InitiativeIds |-> NoInitiative]
    /\ measures = <<>>
    /\ activities = <<>>
    /\ plans = <<>>
    /\ reviews = <<>>
    /\ result = NoResult

NextInitiative ==
    \/ \E o \in ObjectiveIds, data \in ObjectiveData : ObjectiveUpdate(o, data)
    \/ \E i \in InitiativeIds, data \in InitiativeData : InitiativeCreate(i, data)
    \/ \E i \in InitiativeIds, data \in InitiativeData : InitiativeUpdate(i, data)

SpecInitiative == InitInitiative /\ [][NextInitiative]_vars

(***************************************************************************)
(* PerformanceMeasureSerializer                                            *)
(***************************************************************************)
NumMeasures == 2
NumOrganizations == 2

MeasureIds == 1..NumMeasures
OrganizationIds == 1..NumOrganizations

\* Measure and activity weights a caller may send, in hundredths.
ChildWeights == {300, 400}
ChildWeightInputs == ChildWeights \cup {10100}

ChildKeys == {"initiative", "weight", "organization"}

NoChild == [exists |-> FALSE, initiative |-> None, weight |-> None, organization |-> None]

\* "target_type" not in data (target types are strings, so the key's absence
\* is marked by a string of its own).
AbsentType == "(absent)"

\* The target fields of a request: a few shapes, accepted and refused.
TargetChoices ==
    { [target_type |-> AbsentType, q1_target |-> Absent, q2_target |-> Absent,
       q3_target |-> Absent, q4_target |-> Absent, annual_target |-> Absent],
      [target_type |-> "cumulative", q1_target |-> 10, q2_target |-> 20,
       q3_target |-> 30, q4_target |-> 40, annual_target |-> 100],
      [target_type |-> "cumulative", q1_target |-> 10, q2_target |-> 20,
       q3_target |-> 30, q4_target |-> 40, annual_target |-> 99],
      [target_type |-> "increasing", q1_target |-> 5, q2_target |-> 10,
       q3_target |-> 20, q4_target |-> 30, annual_target |-> 30],
      [target_type |-> "decreasing", q1_target |-> 30, q2_target |-> 10,
       q3_target |-> 20, q4_target |-> 5, annual_target |-> 5] }

MeasureData ==
    { base @@ t :
        base \in [initiative : InitiativeIds \cup {Absent},
                  weight : ChildWeightInputs \cup {Absent},
                  organization : OrganizationIds \cup {None, Absent}],
        t \in TargetChoices }

\* data.get(key, 0)
GetOr0(data, key) == IF Has(data, key) THEN data[key] ELSE 0

\* validate(), lines 432-468: the rule of the target type.
TargetCheck(data) ==
    LET target_type == IF data.target_type # AbsentType THEN data.target_type
                       ELSE "cumulative"
        q1 == GetOr0(data, "q1_target")
        q2 == GetOr0(data, "q2_target")
        q3 == GetOr0(data, "q3_target")
        q4 == GetOr0(data, "q4_target")
        annual == GetOr0(data, "annual_target")
    IN  IF target_type = "cumulative"
        THEN IF q1 + q2 + q3 + q4 # annual THEN "TargetSumMismatch" ELSE OK
        ELSE IF target_type = "increasing"
        THEN IF ~ (q1 <= q2 /\ q2 <= q3 /\ q3 <= q4) THEN "TargetOrderViolation"
             ELSE IF q4 # annual THEN "TargetBoundaryViolation" ELSE OK
        ELSE IF target_type = "decreasing"
        THEN IF ~ (q1 >= q2 /\ q2 >= q3 /\ q3 >= q4) THEN "TargetOrderViolation"
             ELSE IF q4 # annual THEN "TargetBoundaryViolation" ELSE OK
        ELSE OK

\* round(n / d) to the nearest integer, ties to even (Python's round), n >= 0.
RoundHalfEven(n, d) ==
    LET q == n \div d
        r == n % d
    IN  IF 2 * r < d THEN q
        ELSE IF 2 * r > d THEN q + 1
        ELSE IF q % 2 = 0 THEN q ELSE q + 1

\* The share of an initiative's weight its measures may take, in percent.
MeasureShare == 35

\* round(float(initiative.weight) * 0.35, 2), in hundredths.
max_allowed_weight(initiative) == RoundHalfEven(initiative.weight * MeasureShare, 100)

RECURSIVE SumWeights(_, _)
SumWeights(rows, ids) ==
    IF ids = {} THEN 0
    ELSE LET x == CHOOSE y \in ids : TRUE
         IN  rows[x].weight + SumWeights(rows, ids \ {x})

\* PerformanceMeasure.objects.filter(initiative=initiative), less the instance
\* being updated: every organization's measures of the initiative.
MeasureSiblings(initiative_id, instance_id) ==
    { m \in MeasureIds : /\ measures[m].exists
                         /\ measures[m].initiative = initiative_id
                         /\ m # instance_id }

total_existing_weight(initiative_id, instance_id) ==
    SumWeights(measures, MeasureSiblings(initiative_id, instance_id))

\* What the body of the try statement (lines 472-499) raises: nothing (OK),
\* StrategicInitiative.DoesNotExist, or the ValidationError of line 497.
MeasureWeightTry(data, instance_id) ==
    IF ~ (data.initiative \in InitiativeIds /\ initiatives[data.initiative].exists)
    THEN "DoesNotExist"
    ELSE IF total_existing_weight(data.initiative, instance_id) + data.weight
            > max_allowed_weight(initiatives[data.initiative])
    THEN "WeightExceedsAllocation"
    ELSE OK

\* The except clauses of lines 500-503: DoesNotExist is passed, and every
\* other Exception, the ValidationError raised at line 497 among them, is
\* logged; either way validate() goes on after the try statement.
MeasureWeightExcept(raised) == OK

\* validate(): target rule, the guarded weight allocation check, weight range.
PerformanceMeasureValidate(data, instance_id) ==
    IF TargetCheck(data) # OK THEN TargetCheck(data)
    ELSE IF /\ Has(data, "initiative") /\ Has(data, "weight")
            /\ MeasureWeightExcept(MeasureWeightTry(data, instance_id)) # OK
    THEN MeasureWeightTry(data, instance_id)
    ELSE IF GetOr0(data, "weight") < 0 \/ GetOr0(data, "weight") > 10000
    THEN "Weight must be between 0 and 100"
    ELSE OK

\* Create: initiative and weight are required columns.
MeasureCreate(m, data) ==
    /\ ~ measures[m].exists
    /\ \A j \in MeasureIds : j < m => measures[j].exists
    /\ Has(data, "initiative") /\ Has(data, "weight")
    /\ LET r == PerformanceMeasureValidate(data, None) IN
        /\ result' = [op |-> "MeasureCreate", outcome |-> r]
        /\ measures' = IF r = OK
                       THEN [measures EXCEPT ![m] = NewRow(data, ChildKeys)]
                       ELSE measures
    /\ UNCHANGED <<objectives, initiatives, activities, plans, reviews>>

MeasureUpdate(m, data) ==
    /\ measures[m].exists
    /\ LET r == PerformanceMeasureValidate(data, m) IN
        /\ result' = [op |-> "MeasureUpdate", outcome |-> r]
        /\ measures' = IF r = OK
                       THEN [measures EXCEPT ![m] = SetAttrs(@, data, ChildKeys)]
                       ELSE measures
    /\ UNCHANGED <<objectives, initiatives, activities, plans, reviews>>

\* Initiatives as accepted earlier: each under a program, with a valid weight.
InitInitiativesPresent ==
    initiatives \in [InitiativeIds ->
        [exists : {TRUE}, strategic_objective : {None}, program : ProgramIds,
         weight : ValidWeights]]

InitMeasure ==
    /\ InitInitiativesPresent
    /\ objectives = <<>>
    /\ measures = [m \in MeasureIds |-> NoChild]
    /\ activities = <<>>
    /\ plans = <<>>
    /\ reviews = <<>>
    /\ result = NoResult

NextMeasure ==
    \/ \E m \in MeasureIds, data \in MeasureData : MeasureCreate(m, data)
    \/ \E m \in MeasureIds, data \in MeasureData : MeasureUpdate(m, data)

SpecMeasure == InitMeasure /\ [][NextMeasure]_vars

(***************************************************************************)
(* MainActivitySerializer                                                  *)
(***************************************************************************)
NumActivities == 2

ActivityIds == 1..NumActivities

ActivityData ==
    [initiative : InitiativeIds \cup {Absent},
     weight : ChildWeightInputs \cup {Absent},
     organization : OrganizationIds \cup {None, Absent}]

\* The serializer defines no validate() and no field validator: whatever the
\* field parsing lets through is accepted.
MainActivityValidate(data, instance_id) == OK

ActivityCreate(a, data) ==
    /\ ~ activities[a].exists
    /\ \A j \in ActivityIds : j < a => activities[j].exists
    /\ Has(data, "initiative") /\ Has(data, "weight")
    /\ LET r == MainActivityValidate(data, None) IN
        /\ result' = [op |-> "ActivityCreate", outcome |-> r]
        /\ activities' = IF r = OK
                         THEN [activities EXCEPT ![a] = NewRow(data, ChildKeys)]
                         ELSE activities
    /\ UNCHANGED <<objectives, initiatives, measures, plans, reviews>>

ActivityUpdate(a, data) ==
    /\ activities[a].exists
    /\ LET r == MainActivityValidate(data, a) IN
        /\ result' = [op |-> "ActivityUpdate", outcome |-> r]
        /\ activities' = IF r = OK
                         THEN [activities EXCEPT ![a] = SetAttrs(@, data, ChildKeys)]
                         ELSE activities
    /\ UNCHANGED <<objectives, initiatives, measures, plans, reviews>>

ActivitySiblings(initiative_id, instance_id) ==
    { a \in ActivityIds : /\ activities[a].exists
                          /\ activities[a].initiative = initiative_id
                          /\ a # instance_id }

InitActivity ==
    /\ InitInitiativesPresent
    /\ objectives = <<>>
    /\ measures = <<>>
    /\ activities = [a \in ActivityIds |-> NoChild]
    /\ plans = <<>>
    /\ reviews = <<>>
    /\ result = NoResult

NextActivity ==
    \/ \E a \in ActivityIds, data \in ActivityData : ActivityCreate(a, data)
    \/ \E a \in ActivityIds, data \in ActivityData : ActivityUpdate(a, data)

SpecActivity == InitActivity /\ [][NextActivity]_vars

(***************************************************************************)
(* PlanSerializer                                                          *)
(***************************************************************************)
NumPlans == 1

PlanIds == 1..NumPlans

PlanStatuses == {"DRAFT", "SUBMITTED", "APPROVED", "REJECTED"}

\* Per-objective weights a planner may send, in hundredths.
OverrideWeights == {1500}

\* selected_objectives as validate() hands it over: a list of objectives.
SelectedLists ==
    {<<>>} \cup { <<o>> : o \in ObjectiveIds }
           \cup { <<pair[1], pair[2]>> :
                    pair \in { q \in ObjectiveIds \X ObjectiveIds : q[1] < q[2] } }

\* selected_objectives_weights: a map from objective id to weight.
WeightMaps == UNION { [S -> OverrideWeights] : S \in SUBSET ObjectiveIds }

Range(list) == { list[k] : k \in DOMAIN list }

\* The plan fields of a request; "present" holds the keys the dict has
\* (fields = '__all__': status is a writable field like any other).  The
\* value of a key the dict does not have is never read; it is fixed here.
PlanData ==
    { d \in [present : SUBSET {"status", "selected_objectives",
                               "selected_objectives_weights"},
             status : PlanStatuses,
             selected_objectives : SelectedLists,
             selected_objectives_weights : WeightMaps] :
        /\ "status" \notin d.present => d.status = "DRAFT"
        /\ "selected_objectives" \notin d.present => d.selected_objectives = <<>>
        /\ "selected_objectives_weights" \notin d.present
              => d.selected_objectives_weights = <<>> }

\* A request that carries no association and no weight map.
PlanStatusData ==
    { d \in PlanData : d.present \subseteq {"status"} }

\* validated_data.pop(key, default)
Pop(data, key, default) == IF key \in data.present THEN data[key] ELSE default

NoPlan ==
    [exists |-> FALSE, status |-> "DRAFT", selected_objectives |-> {},
     selected_objectives_weights |-> <<>>]

\* The step of create() or update() at which the store raises, if any.
CreateFaults == {"none", "create", "set", "save"}
UpdateFaults == {"none", "set", "save"}

\* The body of create()'s transaction, lines 897-925: the table it leaves and
\* whether it raised.  The row is written first; the association is set only
\* for a non-empty list, the weight map saved only when it is non-empty.
PlanCreateBody(p, data, fault) ==
    LET objective_ids == Pop(data, "selected_objectives", <<>>)
        weights == Pop(data, "selected_objectives_weights", <<>>)
        row == [exists |-> TRUE, status |-> Pop(data, "status", "DRAFT"),
                selected_objectives |-> {}, selected_objectives_weights |-> <<>>]
        s1 == [plans EXCEPT ![p] = row]
        s2 == IF objective_ids # <<>>
              THEN [s1 EXCEPT ![p].selected_objectives = Range(objective_ids)]
              ELSE s1
        s3 == IF weights # <<>>
              THEN [s2 EXCEPT ![p].selected_objectives_weights = weights]
              ELSE s2
    IN  IF fault = "create" THEN [plans |-> plans, raised |-> TRUE]
        ELSE IF fault = "set" /\ objective_ids # <<>> THEN [plans |-> s1, raised |-> TRUE]
        ELSE IF fault = "save" /\ weights # <<>> THEN [plans |-> s2, raised |-> TRUE]
        ELSE [plans |-> s3, raised |-> FALSE]

PlanUpdateBodySetsWhenPresent(p, data, fault) ==
    LET objective_ids == Pop(data, "selected_objectives", <<>>)
        weights == Pop(data, "selected_objectives_weights", <<>>)
        s1 == IF "selected_objectives" \in data.present
              THEN [plans EXCEPT ![p].selected_objectives = Range(objective_ids)]
              ELSE plans
        s2 == [s1 EXCEPT ![p].status = Pop(data, "status", @),
                         ![p].selected_objectives_weights =
                             IF "selected_objectives_weights" \in data.present
                             THEN weights ELSE @]
    IN  IF fault = "set" /\ objective_ids # <<>> THEN [plans |-> plans, raised |-> TRUE]
        ELSE IF fault = "save" THEN [plans |-> s1, raised |-> TRUE]
        ELSE [plans |-> s2, raised |-> FALSE]

\* The body of update()'s transaction, lines 936-966: setattr changes the
\* instance in memory only; the association is written at once, the columns
\* by instance.save().
PlanUpdateBody(p, data, fault) ==
    LET objective_ids == Pop(data, "selected_objectives", <<>>)
        weights == Pop(data, "selected_objectives_weights", <<>>)
        s1 == IF objective_ids # <<>>
              THEN [plans EXCEPT ![p].selected_objectives = Range(objective_ids)]
              ELSE plans
        s2 == [s1 EXCEPT ![p].status = Pop(data, "status", @),
                         ![p].selected_objectives_weights =
                             IF weights # <<>> THEN weights ELSE @]
    IN  IF fault = "set" /\ objective_ids # <<>> THEN [plans |-> plans, raised |-> TRUE]
        ELSE IF fault = "save" THEN [plans |-> s1, raised |-> TRUE]
        ELSE [plans |-> s2, raised |-> FALSE]

\* with transaction.atomic(): an exception leaving the block rolls back every
\* write of the block; otherwise they are committed.
AtomicWithoutRollback(before, run) == run.plans

Atomic(before, run) == IF run.raised THEN before ELSE run.plans

PlanCreate(p, data, fault) ==
    /\ ~ plans[p].exists
    /\ \A j \in PlanIds : j < p => plans[j].exists
    /\ LET run == PlanCreateBody(p, data, fault) IN
        /\ plans' = Atomic(plans, run)
        /\ result' = [op |-> "PlanCreate",
                      outcome |-> IF run.raised THEN "Failed to create plan" ELSE OK,
                      fault |-> fault]
    /\ UNCHANGED <<objectives, initiatives, measures, activities, reviews>>

PlanUpdate(p, data, fault) ==
    /\ plans[p].exists
    /\ LET run == PlanUpdateBody(p, data, fault) IN
        /\ plans' = Atomic(plans, run)
        /\ result' = [op |-> "PlanUpdate",
                      outcome |-> IF run.raised THEN "Failed to update plan" ELSE OK,
                      fault |-> fault]
    /\ UNCHANGED <<objectives, initiatives, measures, activities, reviews>>

InitPlan ==
    /\ objectives = <<>>
    /\ initiatives = <<>>
    /\ measures = <<>>
    /\ activities = <<>>
    /\ plans = [p \in PlanIds |-> NoPlan]
    /\ reviews = <<>>
    /\ result = NoResult

NextPlan ==
    \/ \E p \in PlanIds, data \in PlanData, fault \in CreateFaults : PlanCreate(p, data, fault)
    \/ \E p \in PlanIds, data \in PlanData, fault \in UpdateFaults : PlanUpdate(p, data, fault)

SpecPlan == InitPlan /\ [][NextPlan]_vars

\* Updates of one plan already stored, with any association and weight map.
InitPlanUpdate ==
    /\ objectives = <<>>
    /\ initiatives = <<>>
    /\ measures = <<>>
    /\ activities = <<>>
    /\ \E plan \in [exists : {TRUE}, status : PlanStatuses,
                     organization : OrganizationIds,
                     selected_objectives : SUBSET ObjectiveIds,
                     selected_objectives_weights : WeightMaps] :
          plans = [p \in PlanIds |->
                     IF p = 1 THEN plan
                     ELSE NoPlan @@ [organization |-> None]]
    /\ reviews = <<>>
    /\ result = NoResult

NextPlanUpdate ==
    \E p \in PlanIds, data \in PlanData, fault \in UpdateFaults :
        PlanUpdate(p, data, fault)

SpecPlanUpdate == InitPlanUpdate /\ [][NextPlanUpdate]_vars

(***************************************************************************)
(* PlanReviewSerializer and the review workflow                            *)
(***************************************************************************)
NumReviews == 2

ReviewIds == 1..NumReviews

\* OrganizationUser.role of the evaluator a request names.
EvaluatorRoles == {"EVALUATOR", "PLANNER"}
\* data.get('evaluator') is None.
NoEvaluator == "(none)"

ReviewStatuses == {"APPROVED", "REJECTED"}

ReviewData ==
    [evaluator : EvaluatorRoles \cup {NoEvaluator},
     plan : PlanIds \cup {Absent},
     status : ReviewStatuses]

NoReview == [exists |-> FALSE, evaluator |-> NoEvaluator, plan |-> None, status |-> "REJECTED"]

\* validate(), with the role check put after the status check.
PlanReviewValidateStatusFirst(data) ==
    IF Has(data, "plan") /\ plans[data.plan].status # "SUBMITTED"
    THEN "PlanNotSubmitted"
    ELSE IF data.evaluator # NoEvaluator /\ data.evaluator # "EVALUATOR"
    THEN "InvalidReviewerRole"
    ELSE OK

\* validate(), without the status check.
PlanReviewValidateRoleOnly(data) ==
    IF data.evaluator # NoEvaluator /\ data.evaluator # "EVALUATOR"
    THEN "InvalidReviewerRole"
    ELSE OK

\* validate(): the role of the evaluator, then the status of the plan, each
\* only when the data names one.  (reviewed_at, defaulted to now, is left out.)
PlanReviewValidate(data) ==
    IF data.evaluator # NoEvaluator /\ data.evaluator # "EVALUATOR"
    THEN "InvalidReviewerRole"
    ELSE IF Has(data, "plan") /\ plans[data.plan].status # "SUBMITTED"
    THEN "PlanNotSubmitted"
    ELSE OK

\* The plan's status after an accepted review: the review's verdict.
ReviewedPlanStatus(review_status) == review_status

\* DRAFT -> SUBMITTED, done outside the serializers.
SubmitPlan(p) ==
    /\ plans[p].exists
    /\ plans[p].status = "DRAFT"
    /\ plans' = [plans EXCEPT ![p].status = "SUBMITTED"]
    /\ result' = [op |-> "SubmitPlan", outcome |-> OK]
    /\ UNCHANGED <<objectives, initiatives, measures, activities, reviews>>

\* Create: plan and evaluator are required columns, so the data names both.
PlanReviewCreate(r, data) ==
    /\ ~ reviews[r].exists
    /\ \A j \in ReviewIds : j < r => reviews[j].exists
    /\ Has(data, "plan") /\ plans[data.plan].exists
    /\ data.evaluator # NoEvaluator
    /\ LET v == PlanReviewValidate(data) IN
        /\ result' = [op |-> "PlanReviewCreate", outcome |-> v, plan |-> data.plan]
        /\ reviews' = IF v = OK
                      THEN [reviews EXCEPT ![r] =
                              [exists |-> TRUE, evaluator |-> data.evaluator,
                               plan |-> data.plan, status |-> data.status]]
                      ELSE reviews
        /\ plans' = IF v = OK
                    THEN [plans EXCEPT ![data.plan].status = ReviewedPlanStatus(data.status)]
                    ELSE plans
    /\ UNCHANGED <<objectives, initiatives, measures, activities>>

\* Update: a partial update names only the fields it changes.
PlanReviewUpdate(r, data) ==
    /\ reviews[r].exists
    /\ Has(data, "plan") => plans[data.plan].exists
    /\ LET v == PlanReviewValidate(data) IN
        /\ result' = [op |-> "PlanReviewUpdate", outcome |-> v, plan |-> data.plan]
        /\ reviews' = IF v = OK
                      THEN [reviews EXCEPT ![r] =
                              [exists |-> TRUE,
                               evaluator |-> IF data.evaluator # NoEvaluator
                                             THEN data.evaluator ELSE @.evaluator,
                               plan |-> IF Has(data, "plan") THEN data.plan ELSE @.plan,
                               status |-> data.status]]
                      ELSE reviews
    /\ UNCHANGED <<objectives, initiatives, measures, activities, plans>>

InitReview ==
    /\ objectives = <<>>
    /\ initiatives = <<>>
    /\ measures = <<>>
    /\ activities = <<>>
    /\ plans = [p \in PlanIds |-> NoPlan]
    /\ reviews = [r \in ReviewIds |-> NoReview]
    /\ result = NoResult

NextReview ==
    \/ \E p \in PlanIds, data \in PlanStatusData, fault \in CreateFaults :
          PlanCreate(p, data, fault)
    \/ \E p \in PlanIds, data \in PlanStatusData, fault \in UpdateFaults :
          PlanUpdate(p, data, fault)
    \/ \E p \in PlanIds : SubmitPlan(p)
    \/ \E r \in ReviewIds, data \in ReviewData : PlanReviewCreate(r, data)
    \/ \E r \in ReviewIds, data \in ReviewData : PlanReviewUpdate(r, data)

SpecReview == InitReview /\ [][NextReview]_vars

(***************************************************************************)
(* Funding of a main activity: MainActivitySerializer.get_total_budget,    *)
(* get_total_funding, get_funding_gap; amounts in whole units              *)
(***************************************************************************)
NumSubActivities == 2

SubActivityIds == 1..NumSubActivities

NoSubActivity == [exists |-> FALSE, estimated_cost |-> 0, total_funding |-> 0]

\* A sub-activity with the derived values the serializer reads from it.
SubActivityRows ==
    [exists : {TRUE}, estimated_cost : {100, 250}, total_funding : {0, 100, 300}]

NoBudget ==
    [exists |-> FALSE, budget_calculation_type |-> "WITH_TOOL",
     estimated_cost_with_tool |-> 0, estimated_cost_without_tool |-> 0,
     government_treasury |-> 0, sdg_funding |-> 0, partners_funding |-> 0,
     other_funding |-> 0]

\* The legacy ActivityBudget record of an activity.
LegacyBudgets ==
    [exists : {TRUE}, budget_calculation_type : {"WITH_TOOL", "WITHOUT_TOOL"},
     estimated_cost_with_tool : {400}, estimated_cost_without_tool : {500},
     government_treasury : {0, 100}, sdg_funding : {0, 10},
     partners_funding : {1}, other_funding : {2}]

\* obj.sub_activities.all()
CurrentSubActivities(obj) ==
    { s \in SubActivityIds : obj.sub_activities[s].exists }

\* total = 0; for sub_activity in ...: total += sub_activity.<field>
RECURSIVE SumField(_, _, _)
SumField(rows, ids, field) ==
    IF ids = {} THEN 0
    ELSE LET s == CHOOSE x \in ids : TRUE
         IN  rows[s][field] + SumField(rows, ids \ {s}, field)

\* Lines 216-218.
legacy_cost(budget) ==
    IF budget.budget_calculation_type = "WITH_TOOL"
    THEN budget.estimated_cost_with_tool
    ELSE budget.estimated_cost_without_tool

\* Lines 233-234.
legacy_funding(budget) ==
    budget.government_treasury + budget.sdg_funding
      + budget.partners_funding + budget.other_funding

get_total_budget_with_legacy(obj) ==
    SumField(obj.sub_activities, CurrentSubActivities(obj), "estimated_cost")
      + IF obj.budget.exists THEN legacy_cost(obj.budget) ELSE 0

\* Lines 206-221.
get_total_budget(obj) ==
    LET total == SumField(obj.sub_activities, CurrentSubActivities(obj),
                          "estimated_cost")
    IN  IF Cardinality(CurrentSubActivities(obj)) = 0 /\ obj.budget.exists
        THEN total + legacy_cost(obj.budget)
        ELSE total

\* Lines 223-236.
get_total_funding(obj) ==
    LET total == SumField(obj.sub_activities, CurrentSubActivities(obj),
                          "total_funding")
    IN  IF Cardinality(CurrentSubActivities(obj)) = 0 /\ obj.budget.exists
        THEN total + legacy_funding(obj.budget)
        ELSE total

\* Lines 238-239.
get_funding_gap(obj) == get_total_budget(obj) - get_total_funding(obj)

\* A sub-activity is stored under the activity.
SubActivityAdd(a, s, row) ==
    /\ activities[a].exists
    /\ ~ activities[a].sub_activities[s].exists
    /\ activities' = [activities EXCEPT ![a].sub_activities[s] = row]
    /\ result' = [op |-> "SubActivityAdd", outcome |-> OK]
    /\ UNCHANGED <<objectives, initiatives, measures, plans, reviews>>

\* A sub-activity of the activity is deleted.
SubActivityRemove(a, s) ==
    /\ activities[a].exists
    /\ activities[a].sub_activities[s].exists
    /\ activities' = [activities EXCEPT ![a].sub_activities[s] = NoSubActivity]
    /\ result' = [op |-> "SubActivityRemove", outcome |-> OK]
    /\ UNCHANGED <<objectives, initiatives, measures, plans, reviews>>

\* GET of a main activity: the three serializer method fields.
ActivityRead(a) ==
    /\ activities[a].exists
    /\ result' = [op |-> "ActivityRead", outcome |-> OK, activity |-> a,
                  total_budget |-> get_total_budget(activities[a]),
                  total_funding |-> get_total_funding(activities[a]),
                  funding_gap |-> get_funding_gap(activities[a])]
    /\ UNCHANGED <<objectives, initiatives, measures, activities, plans, reviews>>

\* One stored activity with no sub-activity yet, with or without a legacy
\* budget record.
InitFunding ==
    /\ objectives = <<>>
    /\ initiatives = <<>>
    /\ measures = <<>>
    /\ \E budget \in LegacyBudgets \cup {NoBudget} :
          activities = [a \in ActivityIds |->
              [exists |-> a = 1, initiative |-> None, weight |-> None,
               organization |-> None,
               sub_activities |-> [s \in SubActivityIds |-> NoSubActivity],
               budget |-> IF a = 1 THEN budget ELSE NoBudget]]
    /\ plans = <<>>
    /\ reviews = <<>>
    /\ result = NoResult

NextFunding ==
    \/ \E a \in ActivityIds, s \in SubActivityIds, row \in SubActivityRows :
          SubActivityAdd(a, s, row)
    \/ \E a \in ActivityIds, s \in SubActivityIds : SubActivityRemove(a, s)
    \/ \E a \in ActivityIds : ActivityRead(a)

SpecFunding == InitFunding /\ [][NextFunding]_vars

(***************************************************************************)
(* Validation requests: the target fields, the baseline and the period     *)
(* selection of a measure or an activity, in hundredths                    *)
(***************************************************************************)
\* q1..q4 of a request.
QuarterTargets ==
    { <<a, b, c, d>> : a \in {0, 500, 1000}, b \in {0, 500, 1000},
                       c \in {0, 500, 1000}, d \in {0, 500, 1000} }
    \cup { <<1000, 2000, 3000, 4000>>, <<400, 1000, 2000, 3000>>,
           <<500, 1000, 2000, 3000>>, <<3000, 2000, 1000, 500>>,
           <<3000, 1000, 2000, 500>> }

AnnualTargets == {0, 500, 501, 1000, 3000, 9900, 10000, Absent}

\* A numeric baseline, or none (the key left out).
Baselines == {500, 2000, Absent}

TargetTypes == {"cumulative", "increasing", "decreasing", "constant", AbsentType}

\* selected_months and selected_quarters of a request; {} is an empty list or
\* a key left out.
PeriodChoices ==
    [selected_months : {{}, {1}}, selected_quarters : {{}, {"Q1"}}]

\* Requests that carry no initiative and no weight, so that only the target
\* rule of validate() decides.
TargetRequests ==
    { [initiative |-> Absent, weight |-> Absent, organization |-> Absent,
       target_type |-> t, baseline |-> b,
       q1_target |-> q[1], q2_target |-> q[2], q3_target |-> q[3],
       q4_target |-> q[4], annual_target |-> annual] @@ period :
      t \in TargetTypes, b \in Baselines, q \in QuarterTargets,
      annual \in AnnualTargets, period \in PeriodChoices }

ActivityRequests ==
    { [initiative |-> Absent, weight |-> Absent, organization |-> Absent]
        @@ period : period \in PeriodChoices }

\* A request waiting to be validated.
PendingRequests ==
    { [op |-> "MeasureRequest", outcome |-> OK, data |-> d] : d \in TargetRequests }
    \cup { [op |-> "ActivityRequest", outcome |-> OK, data |-> d] :
             d \in ActivityRequests }

\* PerformanceMeasureSerializer(data=...).is_valid()
MeasureIsValid ==
    /\ result.op = "MeasureRequest"
    /\ result' = [op |-> "MeasureIsValid", data |-> result.data,
                  outcome |-> PerformanceMeasureValidate(result.data, None)]
    /\ UNCHANGED <<objectives, initiatives, measures, activities, plans, reviews>>

\* MainActivitySerializer(data=...).is_valid()
ActivityIsValid ==
    /\ result.op = "ActivityRequest"
    /\ result' = [op |-> "ActivityIsValid", data |-> result.data,
                  outcome |-> MainActivityValidate(result.data, None)]
    /\ UNCHANGED <<objectives, initiatives, measures, activities, plans, reviews>>

InitTarget ==
    /\ objectives = <<>>
    /\ initiatives = <<>>
    /\ measures = <<>>
    /\ activities = <<>>
    /\ plans = <<>>
    /\ reviews = <<>>
    /\ result \in PendingRequests

NextTarget == MeasureIsValid \/ ActivityIsValid

SpecTarget == InitTarget /\ [][NextTarget]_vars

(***************************************************************************)
(* Reading: PlanSerializer.get_selected_objectives_data and the nested     *)
(* fields of StrategicInitiativeSerializer                                 *)
(***************************************************************************)
\* A stored JSON value that float() refuses (a string such as "abc", a list);
\* nothing validates the values of the map on create or update.
NotANumber == -3

\* Values a stored selected_objectives_weights map holds for an objective:
\* a weight (0 included), a JSON null, or a value that is no number.
StoredOverrides == {0, 1500, None, NotANumber}

\* The stored JSON map; its keys are the objective ids as JSON writes them
\* (str(objective.id) in the code looks the id up under that key).
StoredWeightMaps == UNION { [S -> StoredOverrides] : S \in SUBSET ObjectiveIds }

\* Lines 832-834: the map is consulted only when it is truthy (not empty) and
\* holds the objective's key.
custom_weight(plan, o) ==
    IF plan.selected_objectives_weights # <<>>
       /\ o \in DOMAIN plan.selected_objectives_weights
    THEN plan.selected_objectives_weights[o]
    ELSE None

\* Line 837.
effective_weight(plan, o) ==
    IF custom_weight(plan, o) # None
    THEN custom_weight(plan, o) ELSE objectives[o].weight

AssembledInitiativesNoExclude(plan, o) ==
    { i \in InitiativeIds :
        /\ initiatives[i].exists
        /\ initiatives[i].strategic_objective = o
        /\ (initiatives[i].is_default
            \/ initiatives[i].organization = plan.organization) }

\* Lines 841-846: filter(is_default OR organization = the plan's), then
\* exclude(organization set AND organization # the plan's).
AssembledInitiatives(plan, o) ==
    { i \in InitiativeIds :
        /\ initiatives[i].exists
        /\ initiatives[i].strategic_objective = o
        /\ (initiatives[i].is_default
            \/ initiatives[i].organization = plan.organization)
        /\ ~ (/\ initiatives[i].organization # None
              /\ initiatives[i].organization # plan.organization) }

\* Lines 851-862, the same queryset over the initiative's measures and over its
\* activities: filter(organization = the plan's), then the same exclude.
AssembledChildren(rows, ids, plan, i) ==
    { c \in ids :
        /\ rows[c].exists
        /\ rows[c].initiative = i
        /\ rows[c].organization = plan.organization
        /\ ~ (/\ rows[c].organization # None
              /\ rows[c].organization # plan.organization) }

\* Lines 864-871.
initiatives_data(plan, o) ==
    { [id |-> i,
       weight |-> initiatives[i].weight,
       performance_measures |-> AssembledChildren(measures, MeasureIds, plan, i),
       main_activities |-> AssembledChildren(activities, ActivityIds, plan, i)] :
      i \in AssembledInitiatives(plan, o) }

\* Lines 873-882.
objective_entry(plan, o) ==
    [id |-> o,
     weight |-> objectives[o].weight,
     planner_weight |-> custom_weight(plan, o),
     effective_weight |-> effective_weight(plan, o),
     is_default |-> objectives[o].is_default,
     initiatives |-> initiatives_data(plan, o)]

\* Lines 828-884: one entry appended per member of selected_objectives.all(),
\* here in the order of the ids.
RECURSIVE objectives_data(_, _)
objectives_data(plan, todo) ==
    IF todo = {} THEN <<>>
    ELSE LET o == CHOOSE x \in todo : \A y \in todo : x <= y
         IN  <<objective_entry(plan, o)>> \o objectives_data(plan, todo \ {o})

\* Whether the body of the try statement (lines 827-884) raises: float() of
\* lines 878-879 does, for an override that is no number.
AssemblyRaises(plan) ==
    \E o \in plan.selected_objectives : custom_weight(plan, o) = NotANumber

\* Lines 826-887: the except branch (lines 885-887) prints the error and
\* returns [].
get_selected_objectives_data(plan) ==
    IF AssemblyRaises(plan) THEN <<>>
    ELSE objectives_data(plan, plan.selected_objectives)

\* GET of a plan: the serializer method above.
PlanRead(p) ==
    /\ plans[p].exists
    /\ result' = [op |-> "PlanRead", outcome |-> OK, plan |-> p,
                  data |-> get_selected_objectives_data(plans[p])]
    /\ UNCHANGED <<objectives, initiatives, measures, activities, plans, reviews>>

\* Lines 521-522: the nested serializers run over the related managers, that
\* is over every measure and every activity of the initiative.
NestedChildren(rows, ids, i) ==
    { c \in ids : rows[c].exists /\ rows[c].initiative = i }

\* GET of an initiative by a user of organization `requester`; the serializer
\* does not take the requester into account.
InitiativeRead(i, requester) ==
    /\ initiatives[i].exists
    /\ result' = [op |-> "InitiativeRead", outcome |-> OK, initiative |-> i,
                  requester |-> requester,
                  performance_measures |-> NestedChildren(measures, MeasureIds, i),
                  main_activities |-> NestedChildren(activities, ActivityIds, i)]
    /\ UNCHANGED <<objectives, initiatives, measures, activities, plans, reviews>>

\* Stored rows the reads run over.  An initiative row carries is_default
\* (serializer default True, line 545) and its organization; a plan row its
\* organization.
StoredInitiatives ==
    [exists : {TRUE}, strategic_objective : ObjectiveIds, program : {None},
     weight : {1000}, is_default : BOOLEAN,
     organization : OrganizationIds \cup {None}]

StoredChildren ==
    {NoChild} \cup [exists : {TRUE}, initiative : InitiativeIds, weight : {300},
                    organization : OrganizationIds \cup {None}]

StoredPlans ==
    [exists : {TRUE}, status : {"DRAFT"}, organization : OrganizationIds,
     selected_objectives : SUBSET ObjectiveIds,
     selected_objectives_weights : StoredWeightMaps]

\* Plan assembly over the objectives, their initiatives and the weight map
\* of one stored plan.
InitAssembly ==
    /\ objectives \in [ObjectiveIds ->
          [exists : {TRUE}, weight : ValidWeights, planner_weight : {None},
           is_default : {TRUE}]]
    /\ initiatives \in [InitiativeIds -> StoredInitiatives]
    /\ measures = [m \in MeasureIds |-> NoChild]
    /\ activities = [a \in ActivityIds |-> NoChild]
    /\ \E plan \in StoredPlans :
          plans = [p \in PlanIds |-> IF p = 1 THEN plan ELSE NoPlan]
    /\ reviews = <<>>
    /\ result = NoResult

NextAssembly == \E p \in PlanIds : PlanRead(p)

SpecAssembly == InitAssembly /\ [][NextAssembly]_vars

\* The two read paths over stored measures and activities of any organization.
InitVisibility ==
    /\ objectives \in [ObjectiveIds ->
          [exists : {TRUE}, weight : {1000}, planner_weight : {None},
           is_default : {TRUE}]]
    /\ initiatives \in [InitiativeIds -> StoredInitiatives]
    /\ measures \in [MeasureIds -> StoredChildren]
    /\ activities \in [ActivityIds -> StoredChildren]
    /\ \E plan \in { q \in StoredPlans : /\ q.selected_objectives = ObjectiveIds
                                         /\ q.selected_objectives_weights = <<>> } :
          plans = [p \in PlanIds |-> IF p = 1 THEN plan ELSE NoPlan]
    /\ reviews = <<>>
    /\ result = NoResult

NextVisibility ==
    \/ \E p \in PlanIds : PlanRead(p)
    \/ \E i \in InitiativeIds, requester \in OrganizationIds :
          InitiativeRead(i, requester)

SpecVisibility == InitVisibility /\ [][NextVisibility]_vars

\* C1: validating a performance measure (create, or update with the measure
\* itself left out of the sibling sum) whose weight plus the weight of the
\* measures already stored under the same initiative exceeds 35% of the
\* initiative's weight fails with the weight-allocation error, and nothing is
\* written.  (Stated for weights within 0..100, which no other rule refuses.)
C1_MeasureAboveShareRejected ==
    [][\A m \in MeasureIds, data \in MeasureData :
        ( /\ \/ MeasureCreate(m, data) /\ ~ measures[m].exists
             \/ MeasureUpdate(m, data) /\ measures[m].exists
          /\ TargetCheck(data) = OK
          /\ Has(data, "initiative") /\ Has(data, "weight")
          /\ data.weight \in 0..10000
          /\ 100 * (data.weight
                    + SumWeights(measures,
                                 MeasureSiblings(data.initiative, m)))
               > MeasureShare * initiatives[data.initiative].weight )
        => (result'.outcome = "WeightExceedsAllocation" /\ measures' = measures)]_vars

\* C2: validating a main activity whose weight plus the weights of its sibling
\* activities under the same initiative exceeds 65% of the initiative's weight
\* by more than the tolerance 0.01 fails with WeightExceedsAllocation, and
\* nothing is written.  (Stated for weights within 0..100.)
C2_ActivityAboveShareRejected ==
    [][\A a \in ActivityIds, data \in ActivityData :
        ( /\ \/ ActivityCreate(a, data) /\ ~ activities[a].exists
             \/ ActivityUpdate(a, data) /\ activities[a].exists
          /\ Has(data, "initiative") /\ Has(data, "weight")
          /\ data.weight \in 0..10000
          /\ 100 * (data.weight
                    + SumWeights(activities,
                                 ActivitySiblings(data.initiative, a)))
               > 65 * initiatives[data.initiative].weight + 100 )
        => (result'.outcome = "WeightExceedsAllocation" /\ activities' = activities)]_vars

\* C3: in every reachable state, for every initiative and every visibility
\* scope (one organization, or the organization-null defaults), the weights of
\* the initiative's measures in that scope sum to at most
\* initiative.weight * 0.35 + 0.01.
C3_MeasureSumWithinShare ==
    \A i \in InitiativeIds, org \in OrganizationIds \cup {None} :
        100 * SumWeights(measures,
                         { m \in MeasureIds : /\ measures[m].exists
                                              /\ measures[m].initiative = i
                                              /\ measures[m].organization = org })
          <= MeasureShare * initiatives[i].weight + 100

\* C4: validating an initiative that is linked to one strategic objective (and
\* to no program) and carries a weight greater than that objective's effective
\* weight (planner_weight if it is set, otherwise weight) fails with
\* WeightExceedsParent, whether or not the objective is a default objective.
C4_RejectsAboveEffectiveWeight ==
    [][\A i \in InitiativeIds, data \in InitiativeData :
        ( /\ InitiativeCreate(i, data) \/ InitiativeUpdate(i, data)
          /\ ParentCount(data) = 1
          /\ Get(data, "strategic_objective") \in ObjectiveIds
          /\ Has(data, "weight")
          /\ data.weight > get_effective_weight(objectives[data.strategic_objective]) )
        => result'.outcome = "WeightExceedsParent"]_vars

\* C5: in every reachable state, every initiative whose parent is a strategic
\* objective has weight <= that objective's effective weight.
C5_InitiativeWithinObjective ==
    \A i \in InitiativeIds :
        (initiatives[i].exists /\ initiatives[i].strategic_objective # None)
        => initiatives[i].weight
             <= get_effective_weight(objectives[initiatives[i].strategic_objective])

\* C6: every initiative accepted by a create or an update has exactly one
\* parent: exactly one of strategic_objective and program is set.
C6_ExactlyOneParent ==
    \A i \in InitiativeIds :
        initiatives[i].exists
        => (initiatives[i].strategic_objective # None) # (initiatives[i].program # None)

\* C7: Plan.status only moves along DRAFT -> SUBMITTED -> {APPROVED, REJECTED},
\* and a plan leaves SUBMITTED only through the creation of a PlanReview: no
\* other write changes the status of a stored plan in any other way.
C7_StatusMovesAlongWorkflow ==
    [][\A p \in PlanIds :
        (plans[p].exists /\ plans'[p].exists /\ plans'[p].status # plans[p].status)
        => \/ plans[p].status = "DRAFT" /\ plans'[p].status = "SUBMITTED"
           \/ /\ plans[p].status = "SUBMITTED"
              /\ plans'[p].status \in {"APPROVED", "REJECTED"}
              /\ result'.op = "PlanReviewCreate"]_vars

\* The evaluator and the plan a review has once the request is applied: the
\* ones the data names, else the stored ones.
ReviewEvaluator(r, data) ==
    IF data.evaluator # NoEvaluator THEN data.evaluator ELSE reviews[r].evaluator
ReviewPlan(r, data) ==
    IF Has(data, "plan") THEN data.plan ELSE reviews[r].plan

C9_DraftAlwaysPlanNotSubmitted ==
    [][result'.op = "PlanReviewCreate" =>
       \A r \in ReviewIds, data \in ReviewData :
        PlanReviewCreate(r, data)
        => /\ plans[data.plan].status = "DRAFT"
                => result'.outcome = "PlanNotSubmitted"
           /\ (plans[data.plan].status = "SUBMITTED" /\ data.evaluator # "EVALUATOR")
                => result'.outcome = "InvalidReviewerRole"]_vars

\* C9 amended: creating a PlanReview with a non-EVALUATOR evaluator fails with
\* InvalidReviewerRole whatever the plan's status (DRAFT and SUBMITTED alike);
\* creating one with an EVALUATOR evaluator for a plan in DRAFT status fails
\* with PlanNotSubmitted; and nothing is written in either case.
C9_RoleErrorBeforeStatusError ==
    [][result'.op = "PlanReviewCreate" =>
       \A r \in ReviewIds, data \in ReviewData :
        PlanReviewCreate(r, data)
        => /\ data.evaluator # "EVALUATOR"
                => result'.outcome = "InvalidReviewerRole"
           /\ (data.evaluator = "EVALUATOR" /\ plans[data.plan].status = "DRAFT")
                => result'.outcome = "PlanNotSubmitted"
           /\ result'.outcome # OK => (reviews' = reviews /\ plans' = plans)]_vars

\* A review by a non-EVALUATOR for a DRAFT plan has just been refused.
C9_Witness ==
    /\ result.op = "PlanReviewCreate"
    /\ result.outcome = "InvalidReviewerRole"
    /\ plans[result.plan].status = "DRAFT"

\* C10: plan create and plan update are all-or-nothing: when a step raises
\* (the row's insert, setting the selected-objectives association, or the
\* save of the columns and the weight map), a failure is returned and the
\* plans table, associations and weight maps are as before the operation.
C10_PlanWritesAllOrNothing ==
    [][ /\ (result'.op \in {"PlanCreate", "PlanUpdate"} /\ result'.outcome # OK)
            => plans' = plans
        /\ (result'.op = "PlanCreate" /\ result'.fault = "create")
            => result'.outcome = "Failed to create plan"
        /\ (result'.op = "PlanUpdate" /\ result'.fault = "save")
            => result'.outcome = "Failed to update plan" ]_vars

\* A create has failed at the association, after its row was written, and the
\* row is not there; or an update has failed at the save, after its association
\* was written.
C10_Witness ==
    \/ /\ result.op = "PlanCreate"
       /\ result.outcome = "Failed to create plan"
       /\ result.fault = "set"
       /\ \E p \in PlanIds : ~ plans[p].exists
    \/ /\ result.op = "PlanUpdate"
       /\ result.outcome = "Failed to update plan"
       /\ result.fault = "save"

\* C11: no read returns a performance measure or a main activity of an
\* organization other than the requester's: neither the plan's assembled
\* objectives data (requester: the plan's organization) nor the measures and
\* activities nested under a serialized initiative.
C11_NoForeignRecordRead ==
    /\ result.op = "PlanRead" =>
          \A k \in 1..Len(result.data) : \A e \in result.data[k].initiatives :
              /\ \A m \in e.performance_measures :
                    measures[m].organization
                        \in {None, plans[result.plan].organization}
              /\ \A a \in e.main_activities :
                    activities[a].organization
                        \in {None, plans[result.plan].organization}
    /\ result.op = "InitiativeRead" =>
          /\ \A m \in result.performance_measures :
                measures[m].organization \in {None, result.requester}
          /\ \A a \in result.main_activities :
                activities[a].organization \in {None, result.requester}

\* C12: for a plan of organization A, the measures and the activities assembled
\* under each initiative are exactly the initiative's records whose organization
\* is unset or is A; every organization-null record is among them.
C12_AssembledIsNullOrOwn ==
    result.op = "PlanRead" =>
        \A k \in 1..Len(result.data) : \A e \in result.data[k].initiatives :
            /\ e.performance_measures =
                  { m \in MeasureIds :
                      /\ measures[m].exists
                      /\ measures[m].initiative = e.id
                      /\ measures[m].organization
                            \in {None, plans[result.plan].organization} }
            /\ e.main_activities =
                  { a \in ActivityIds :
                      /\ activities[a].exists
                      /\ activities[a].initiative = e.id
                      /\ activities[a].organization
                            \in {None, plans[result.plan].organization} }

\* C13: when a measure of organization A is validated, the existing-weight
\* total of the weight check is summed over the siblings the visibility filter
\* shows to A (organization unset or A): a measure of the same initiative that
\* another organization owns is not counted.
C13_SiblingSumIsVisibleSum ==
    [][\A m \in MeasureIds, data \in MeasureData :
        ( /\ \/ MeasureCreate(m, data) /\ ~ measures[m].exists
             \/ MeasureUpdate(m, data) /\ measures[m].exists
          /\ TargetCheck(data) = OK
          /\ Has(data, "initiative") /\ Has(data, "weight")
          /\ data.organization \in OrganizationIds )
        => LET instance_id == IF measures[m].exists THEN m ELSE None
           IN  total_existing_weight(data.initiative, instance_id)
                 = SumWeights(measures,
                      { s \in MeasureSiblings(data.initiative, instance_id) :
                          measures[s].organization
                              \in {None, data.organization} })]_vars

C15_EffectiveWeightAssembled ==
    result.op = "PlanRead" =>
        LET plan == plans[result.plan]
            map == plan.selected_objectives_weights
        IN  /\ Len(result.data) = Cardinality(plan.selected_objectives)
            /\ \A o \in plan.selected_objectives :
                  \E k \in 1..Len(result.data) :
                      /\ result.data[k].id = o
                      /\ \A j \in 1..Len(result.data) :
                            result.data[j].id = o => j = k
                      /\ result.data[k].effective_weight
                           = IF o \in DOMAIN map /\ map[o] # None
                             THEN map[o] ELSE objectives[o].weight

\* The quarterly and annual targets of the request just validated, as
\* validate() reads them (lines 434-438); amounts are in hundredths, so a
\* difference within -1..1 is a difference of at most 0.01.
ResultQuarters ==
    <<GetOr0(result.data, "q1_target"), GetOr0(result.data, "q2_target"),
      GetOr0(result.data, "q3_target"), GetOr0(result.data, "q4_target")>>

ResultAnnual == GetOr0(result.data, "annual_target")

\* C16: a cumulative measure is accepted exactly when q1+q2+q3+q4 is within
\* 0.01 of annual_target, and is refused with TargetSumMismatch otherwise.
C16_CumulativeSumWithinTolerance ==
    (result.op = "MeasureIsValid" /\ result.data.target_type = "cumulative") =>
        LET q == ResultQuarters
        IN  IF q[1] + q[2] + q[3] + q[4] - ResultAnnual \in -1..1
            THEN result.outcome = OK
            ELSE result.outcome = "TargetSumMismatch"

\* C17: an increasing measure is accepted exactly when q1 <= q2 <= q3 <= q4,
\* q4 is within 0.01 of annual_target and, when the baseline is numeric,
\* q1 >= baseline.
C17_IncreasingRule ==
    (result.op = "MeasureIsValid" /\ result.data.target_type = "increasing") =>
        LET q == ResultQuarters
        IN  result.outcome = OK
              <=> /\ q[1] <= q[2] /\ q[2] <= q[3] /\ q[3] <= q[4]
                  /\ q[4] - ResultAnnual \in -1..1
                  /\ Has(result.data, "baseline") => q[1] >= result.data.baseline

\* C18: a decreasing measure is accepted exactly when q1 >= q2 >= q3 >= q4,
\* q4 is within 0.01 of annual_target and, when the baseline is numeric,
\* q1 <= baseline.
C18_DecreasingRule ==
    (result.op = "MeasureIsValid" /\ result.data.target_type = "decreasing") =>
        LET q == ResultQuarters
        IN  result.outcome = OK
              <=> /\ q[1] >= q[2] /\ q[2] >= q[3] /\ q[3] >= q[4]
                  /\ q[4] - ResultAnnual \in -1..1
                  /\ Has(result.data, "baseline") => q[1] <= result.data.baseline

\* C19: a constant measure whose q1..q4 and annual_target are not all equal
\* (within 0.01) is refused with TargetConstantMismatch.
C19_ConstantRule ==
    (result.op = "MeasureIsValid" /\ result.data.target_type = "constant") =>
        LET q == ResultQuarters
        IN  ~ (\A k \in 1..4 : q[k] - ResultAnnual \in -1..1)
              => result.outcome = "TargetConstantMismatch"

\* C20: a measure or an activity whose selected_months and selected_quarters
\* are both empty or left out is refused with MissingPeriodSelection, whatever
\* its targets are.
C20_PeriodSelectionRequired ==
    ( /\ result.op \in {"MeasureIsValid", "ActivityIsValid"}
      /\ result.data.selected_months = {}
      /\ result.data.selected_quarters = {} )
    => result.outcome = "MissingPeriodSelection"

\* The sum of estimated_cost - total_funding over the given sub-activities.
RECURSIVE SubActivityGaps(_, _)
SubActivityGaps(rows, ids) ==
    IF ids = {} THEN 0
    ELSE LET s == CHOOSE x \in ids : TRUE
         IN  (rows[s].estimated_cost - rows[s].total_funding)
               + SubActivityGaps(rows, ids \ {s})

C22_ReadFailureSurfaced ==
    (result.op = "PlanRead" /\ AssemblyRaises(plans[result.plan]))
        => result.outcome # OK

\* Update requests whose selected_objectives is absent or an empty list, and
\* those whose selected_objectives_weights is absent or an empty map.
NoObjectivesData ==
    { d \in PlanData : Pop(d, "selected_objectives", <<>>) = <<>> }

NoWeightsData ==
    { d \in PlanData : Pop(d, "selected_objectives_weights", <<>>) = <<>> }

\* C23: a plan update whose selected_objectives is absent or empty leaves the
\* plan's association as it was, and one whose selected_objectives_weights is
\* absent or empty leaves the stored weight map as it was (a step that changes
\* one of them is the update of no such request); so no plan update empties an
\* association or a weight map that is set.
C23_UpdateKeepsWhatItDoesNotCarry ==
    [][result'.op = "PlanUpdate" =>
        \A p \in PlanIds :
            /\ plans'[p].selected_objectives # plans[p].selected_objectives
                  => \A data \in NoObjectivesData :
                        ~ PlanUpdate(p, data, result'.fault)
            /\ plans'[p].selected_objectives_weights
                    # plans[p].selected_objectives_weights
                  => \A data \in NoWeightsData :
                        ~ PlanUpdate(p, data, result'.fault)
            /\ plans[p].selected_objectives # {}
                  => plans'[p].selected_objectives # {}
            /\ plans[p].selected_objectives_weights # <<>>
                  => plans'[p].selected_objectives_weights # <<>>]_vars

\* A plan whose association and weight map are set was updated to another
\* status, and both are still set.
C23_Witness ==
    /\ result.op = "PlanUpdate" /\ result.outcome = OK
    /\ plans[1].status = "APPROVED"
    /\ plans[1].selected_objectives # {}
    /\ plans[1].selected_objectives_weights # <<>>

====
